---- MODULE Spec2Model ----
\* A model of the ovs-unixctl JSON-RPC client: one Client (jsonrpc.rs) that owns
\* one Unix socket stream (unix.rs), the error classification of error.rs, and a
\* peer at the other end of the socket.  The two directions of the socket are
\* sequences of JSON tokens; a message has no delimiter and no length prefix.
EXTENDS Integers, Sequences, FiniteSets, TLC

VARIABLES
    last_id,    \* Client.last_id, the AtomicUsize counter
    timeout,    \* UnixJsonStreamClient.timeout is Some(_) (TRUE) or None (FALSE)
    pc,         \* "idle": no call in progress; "sent": a call is blocked in recv
    cur,        \* the call in progress: its api, method, params and request
    tx,         \* tokens written by the client, not yet read by the peer
    rx,         \* tokens written by the peer, not yet read by the client
    peer,       \* "open", "closed" (orderly close: EOF) or "reset" (read fails)
    ids,        \* history: the ids build_request handed out, in call order
    last,       \* history: the last call that returned
    pending,    \* history: ids of the requests sent whose response was not read
    failed,     \* history: ids of the calls that returned an error
    wrote,      \* history: the values written to a stream, in order
    taken,      \* history: the values UnixJsonStream::recv returned, in order
    files,      \* the files under the run directory: pid files and sockets
    ctor,       \* the OvsUnixCtl construction in progress and its position
    built,      \* history: the last construction that returned
    text,       \* the result text of a response handed to version / list_commands
    parsed,     \* what version / list_commands made of it
    callers     \* the threads that share the Client: where each one is, the
                \* counter value it holds and the ids of the requests it built

\* The state of the parts other than the Client and its socket.
stream == <<wrote, taken>>
facade == <<files, ctor, built>>
reply == <<text, parsed>>

vars == <<last_id, timeout, pc, cur, tx, rx, peer, ids, last, pending, failed,
          stream, facade, reply, callers>>

-----------------------------------------------------------------------------
\* Bounds of the model.

MaxCalls == 2

\* AtomicUsize::new(1)
FirstId == 1

Methods == {"ping"}
ParamLists == {<<"a", "b">>}
ResultTexts == {"pong"}
ErrorTexts == {"", "boom"}

\* The inputs of the calls against the answering peer of tests::ping_pong.
PeerIds == {1, 2}

EchoMethods == {"ping", "version"}
EchoParamLists == {<<>>, <<"hello world">>, <<"a", "b">>}
EchoResultTexts == {"pong", "pang"}

\* Option<T>: None is <<>>, Some(x) is <<x>>.
None == <<>>
Some(x) == <<x>>

-----------------------------------------------------------------------------
\* The wire: JSON tokens.

Tok(t) == [t |-> t, k |-> "", v |-> None]
Fld(k, v) == [t |-> "F", k |-> k, v |-> v]
LB == Tok("LB")
RB == Tok("RB")
WS == Tok("WS")
BAD == Tok("BAD")

Drop(s, n) == SubSeq(s, n + 1, Len(s))
Take(s, n) == SubSeq(s, 1, n)

\* #[derive(Serialize)] struct Request: method, params, id in declaration order.
EncodeRequest(r) ==
    <<LB, Fld("method", Some(r.method)), Fld("params", Some(r.params)),
      Fld("id", Some(r.id)), RB>>

\* #[derive(Serialize)] struct SendResponse: result, error, id; None is null.
EncodeResponse(r) ==
    <<LB, Fld("result", r.result), Fld("error", r.error), Fld("id", r.id), RB>>

-----------------------------------------------------------------------------
\* error.rs: the error kinds the client reports.

Error(kind, detail) ==
    [kind |-> kind, detail |-> detail, cmd |-> "", params |-> "", error |-> ""]
Protocol(detail) == Error("Protocol", detail)
Serialize(category) == Error("Serialize", category)
Socket(detail) == Error("Socket", detail)
Timeout == Error("Timeout", "")
Command(cmd, params, error) ==
    [kind |-> "Command", detail |-> "", cmd |-> cmd, params |-> params,
     error |-> error]

OvsNotRunning == Error("OvsNotRunning", "")
SocketNotFound(path) == Error("SocketNotFound", path)

OvsInvalidResponse(cmd, response, error) ==
    [kind |-> "OvsInvalidResponse", detail |-> response, cmd |-> cmd,
     params |-> "", error |-> error]

\* Result<T>: Ok(v) or Err(e).
Ok(v) == [ok |-> TRUE, val |-> Some(v), err |-> None]
Err(e) == [ok |-> FALSE, val |-> None, err |-> Some(e)]

\* impl From<serde_json::Error> for Error: classify() is Io, Syntax, Data or Eof.
From(category) ==
    IF category = "Io" THEN Socket("Io") ELSE Serialize(category)

-----------------------------------------------------------------------------
\* The incremental decoder pulled once by recv (Deserializer::from_reader on the
\* socket, unbuffered: what it has read is gone from the socket).

RECURSIVE parse_whitespace(_, _)
\* the number of leading whitespace tokens of s from position i on
parse_whitespace(s, i) ==
    IF i <= Len(s) /\ s[i].t = "WS" THEN 1 + parse_whitespace(s, i + 1) ELSE 0

HasKey(fs, k) == \E j \in 1..Len(fs) : fs[j].k = k
Get(fs, k) == IF HasKey(fs, k)
              THEN fs[CHOOSE j \in 1..Len(fs) : fs[j].k = k].v
              ELSE None

RECURSIVE ScanObject(_, _, _, _)
\* The members of an object, after its opening brace: st is "value" (closed by
\* its brace), "more" (the tokens ran out inside it) or "error"; used counts the
\* tokens read from the stream.  Members of no key of the struct are skipped, a
\* key of the struct met twice is an error (duplicate field).
ScanObject(s, i, fs, keys) ==
    IF i > Len(s) THEN [st |-> "more", used |-> Len(s), fields |-> fs, cat |-> ""]
    ELSE IF s[i].t = "WS" THEN ScanObject(s, i + 1, fs, keys)
    ELSE IF s[i].t = "RB" THEN [st |-> "value", used |-> i, fields |-> fs, cat |-> ""]
    ELSE IF s[i].t = "F" THEN
        IF s[i].k \in keys /\ HasKey(fs, s[i].k)
        THEN [st |-> "error", used |-> i, fields |-> fs, cat |-> "Data"]
        ELSE ScanObject(s, i + 1,
                        IF s[i].k \in keys THEN Append(fs, s[i]) ELSE fs, keys)
    ELSE [st |-> "error", used |-> i, fields |-> fs, cat |-> "Syntax"]

\* One value of a struct with the given keys from the head of s: st is "end"
\* when nothing but whitespace is there.
Parse(s, keys) ==
    LET n == parse_whitespace(s, 1)
    IN  IF n = Len(s) THEN [st |-> "end", used |-> n, fields |-> <<>>, cat |-> ""]
        ELSE IF s[n + 1].t = "LB" THEN ScanObject(s, n + 2, <<>>, keys)
        ELSE [st |-> "error", used |-> n + 1, fields |-> <<>>,
              cat |-> IF s[n + 1].t = "F" THEN "Data" ELSE "Syntax"]

\* struct Response: three Option fields, a missing member is None.
ResponseKeys == {"result", "error", "id"}
Response(fs) ==
    [result |-> Get(fs, "result"), error |-> Get(fs, "error"), id |-> Get(fs, "id")]

\* struct ReceiveRequest of the fake server: method and id are required.
RequestKeys == {"method", "params", "id"}
ReceiveRequest(fs) ==
    [method |-> Get(fs, "method"), params |-> Get(fs, "params"), id |-> Get(fs, "id")]

\* The stream is exhausted when the decoder needs a token that is not there: it
\* then depends on what the next read of the socket returns.
Exhausted(s, keys) == Parse(s, keys).st \in {"end", "more"}

\* What a read of the socket returns when no byte is buffered: "eof" after an
\* orderly close, "ioerr" after a reset or when SO_RCVTIMEO elapses (WouldBlock);
\* without a timeout the read of an open socket blocks.
ReadAtEnd(p, t) ==
    IF p = "closed" THEN {"eof"}
    ELSE IF p = "reset" THEN {"ioerr"}
    ELSE IF t THEN {"ioerr"} ELSE {}

\* StreamDeserializer::next(): None when the stream ends before any byte of a
\* value, else Some(Ok(value)) or Some(Err(category)).
next(s, read) ==
    LET p == Parse(s, ResponseKeys)
    IN  IF p.st = "value" THEN Some([ok |-> TRUE, val |-> Some(Response(p.fields)), cat |-> ""])
        ELSE IF p.st = "error" THEN Some([ok |-> FALSE, val |-> None, cat |-> p.cat])
        ELSE IF read = "ioerr" THEN Some([ok |-> FALSE, val |-> None, cat |-> "Io"])
        ELSE IF p.st = "more" THEN Some([ok |-> FALSE, val |-> None, cat |-> "Eof"])
        ELSE None

\* A faulty variant of recv: the end of the stream is reported as a decode error.
recvNoTimeout(s, read) ==
    LET n == next(s, read)
    IN  IF n = None THEN Err(Serialize("Eof"))
        ELSE IF n[1].ok THEN Ok(n[1].val[1]) ELSE Err(From(n[1].cat))

\* UnixJsonStream::recv: .next().ok_or_else(|| Error::Timeout)??
recv(s, read) ==
    LET n == next(s, read)
    IN  IF n = None THEN Err(Timeout)
        ELSE IF n[1].ok THEN Ok(n[1].val[1]) ELSE Err(From(n[1].cat))

\* A faulty variant of Rest: the decoder reads the socket through a buffer and
\* takes what follows the value with it.
RestBuffered(s) == <<>>

\* The tokens recv leaves in the socket.
Rest(s) == Drop(s, Parse(s, ResponseKeys).used)

-----------------------------------------------------------------------------
\* jsonrpc.rs: the Client.

RECURSIVE Join(_)
\* params.join(", ")
Join(params) ==
    IF Len(params) = 0 THEN ""
    ELSE IF Len(params) = 1 THEN params[1]
    ELSE params[1] \o ", " \o Join(Tail(params))

\* A faulty variant of build_request: the id is the counter after the increment.
build_requestAddFetch(method, params) ==
    [method |-> method, params |-> params, id |-> last_id + 1]

\* Client::build_request: the id is what fetch_add returns, the counter before
\* the increment.
build_request(method, params) ==
    [method |-> method, params |-> params, id |-> last_id]

\* last_id.fetch_add(1, Relaxed): the counter after it.
fetch_add(v) == v + 1

\* A faulty variant of send_request: the response id is not compared.
send_requestNoMatch(request, received) ==
    IF ~received.ok THEN received
    ELSE IF received.val[1].id = None
         THEN Err(Protocol("id not found in response"))
         ELSE received

\* A faulty variant of send_request: the response id is compared with the counter,
\* which build_request has already incremented.
send_requestCounter(request, received) ==
    IF ~received.ok THEN received
    ELSE IF received.val[1].id = None
         THEN Err(Protocol("id not found in response"))
         ELSE IF received.val[1].id[1] # last_id
              THEN Err(Protocol("request and response ids do not match"))
              ELSE received

\* A faulty variant of send_request: a response without id is let through.
send_requestNoId(request, received) ==
    IF ~received.ok THEN received
    ELSE IF received.val[1].id # None /\ received.val[1].id[1] # request.id
         THEN Err(Protocol("request and response ids do not match"))
         ELSE received

\* Client::send_request, after stream.send(request)? succeeded: received is what
\* stream.recv() returned; its error is propagated by `?`.
send_request(request, received) ==
    IF ~received.ok THEN received
    ELSE IF received.val[1].id = None
         THEN Err(Protocol("id not found in response"))
         ELSE IF received.val[1].id[1] # request.id
              THEN Err(Protocol("request and response ids do not match"))
              ELSE received

\* A faulty variant of call_params: an empty error text is taken as no error.
call_paramsNonEmpty(method, params, request, received) ==
    LET response == send_request(request, received)
    IN  IF ~response.ok THEN response
        ELSE IF response.val[1].error # None /\ response.val[1].error[1] # ""
             THEN Err(Command(method, Join(params), response.val[1].error[1]))
             ELSE response

\* Client::call_params, from send_request on.
call_params(method, params, request, received) ==
    LET response == send_request(request, received)
    IN  IF ~response.ok THEN response
        ELSE IF response.val[1].error # None
             THEN Err(Command(method, Join(params), response.val[1].error[1]))
             ELSE response

\* A faulty variant of call: the params text is the empty slice as {:?} prints it.
callDebugParams(method, request, received) ==
    LET response == send_request(request, received)
    IN  IF ~response.ok THEN response
        ELSE IF response.val[1].error # None
             THEN Err(Command(method, "[]", response.val[1].error[1]))
             ELSE response

\* Client::call, from send_request on: the params text is String::default().
call(method, request, received) ==
    LET response == send_request(request, received)
    IN  IF ~response.ok THEN response
        ELSE IF response.val[1].error # None
             THEN Err(Command(method, "", response.val[1].error[1]))
             ELSE response

-----------------------------------------------------------------------------
\* The state machine.

\* struct Result of tests::ping_pong, the result type R of the calls.
Result(val, extra) == [val |-> val, extra |-> extra]

NoCall == [api |-> "", method |-> "", params |-> <<>>,
           req |-> [method |-> "", params |-> <<>>, id |-> 0]]

\* What the peer may write on its own: any response, whole or cut short.
Responses ==
    [result : {None, Some(Result("pong", 42))},
     error : {None} \cup {Some(t) : t \in ErrorTexts},
     id : {None} \cup {Some(i) : i \in PeerIds}]

\* Where the peer stops: inside the response or at its end.
PeerCuts == {2, 5}

\* Where a failing send stops: the first write fails (EPIPE, WouldBlock).
SendCuts == {0}

\* The threads that hold a reference to the Client, none of them inside one of
\* its methods.
Callers == {"a", "b", "c"}
Outside == [pc |-> "out", reg |-> 0, got |-> <<>>]

\* The run directory before any daemon started, and no construction under way.
NoFiles == {}
NoConstruction == [pc |-> "none", how |-> "", target |-> "", path |-> "", log |-> <<>>]

\* Client::new: the stream is connected and the counter starts at 1.  The facade
\* always sets a timeout: timeout.or(Some(Duration::from_secs(1))).
Init ==
    /\ last_id = FirstId
    /\ timeout = TRUE
    /\ pc = "idle"
    /\ cur = NoCall
    /\ tx = <<>>
    /\ rx = <<>>
    /\ peer = "open"
    /\ ids = <<>>
    /\ last = None
    /\ pending = {}
    /\ failed = {}
    /\ wrote = <<>> /\ taken = <<>>
    /\ files = NoFiles /\ ctor = NoConstruction /\ built = None
    /\ text = None /\ parsed = None
    /\ callers = [t \in Callers |-> Outside]

\* The record of a call that returned.
Returned(c, out, received, st, avail) ==
    [id |-> c.req.id, api |-> c.api, method |-> c.method, params |-> c.params,
     out |-> out, got |-> received, st |-> st, peer |-> peer, avail |-> avail]

\* A faulty variant of StartCall: a call begins while another one is between its
\* send and its receive (what the exclusive borrow of the Client rules out).
StartCallUnguarded(api, method, params) ==
    /\ Len(ids) < MaxCalls
    /\ LET request == build_request(method, params)
           c == [api |-> api, method |-> method, params |-> params, req |-> request]
       IN  /\ last_id' = fetch_add(last_id)
           /\ ids' = Append(ids, request.id)
           /\ tx' = tx \o EncodeRequest(request)
           /\ pc' = "sent"
           /\ cur' = c
           /\ pending' = pending \cup {request.id}
           /\ UNCHANGED <<last, failed>>
    /\ UNCHANGED <<timeout, rx, peer>>
    /\ UNCHANGED <<stream, facade, reply>>

\* The first half of call / call_params: build_request, then stream.send(request)
\* (serde_json::to_writer on the socket).  A failing write is an Io error, which
\* `?` turns into Socket, and the call returns without a receive.
StartCall(api, method, params) ==
    /\ pc = "idle"
    /\ Len(ids) < MaxCalls
    /\ LET request == build_request(method, params)
           c == [api |-> api, method |-> method, params |-> params, req |-> request]
       IN  /\ last_id' = fetch_add(last_id)
           /\ ids' = Append(ids, request.id)
           /\ \/ /\ tx' = tx \o EncodeRequest(request)
                 /\ pc' = "sent"
                 /\ cur' = c
                 /\ pending' = pending \cup {request.id}
                 /\ UNCHANGED <<last, failed>>
              \/ /\ peer # "open" \/ timeout
                 /\ \E n \in SendCuts : tx' = tx \o Take(EncodeRequest(request), n)
                 /\ pc' = "idle"
                 /\ cur' = NoCall
                 /\ last' = Some(Returned(c, Err(From("Io")), None, "send", Len(rx)))
                 /\ failed' = failed \cup {request.id}
                 /\ UNCHANGED pending
    /\ UNCHANGED <<timeout, rx, peer>>
    /\ UNCHANGED <<stream, facade, reply>>

\* Client::call(method)
Call(method) == StartCall("call", method, <<>>) /\ UNCHANGED callers

\* Client::call_params(method, params)
CallParams(method, params) ==
    StartCall("call_params", method, params) /\ UNCHANGED callers

\* A faulty variant of Recv: a response with another id is dropped and the call
\* waits for the next one.
RecvRematch ==
    /\ pc = "sent"
    /\ LET p == Parse(rx, ResponseKeys)
       IN  \E read \in (IF p.st \in {"end", "more"} THEN ReadAtEnd(peer, timeout)
                        ELSE {"data"}) :
              LET received == recv(rx, read)
                  out == IF cur.api = "call"
                         THEN call(cur.method, cur.req, received)
                         ELSE call_params(cur.method, cur.params, cur.req, received)
                  again == out = Err(Protocol("request and response ids do not match"))
              IN  /\ rx' = Rest(rx)
                  /\ pc' = IF again THEN "sent" ELSE "idle"
                  /\ cur' = IF again THEN cur ELSE NoCall
                  /\ last' = IF again THEN last
                             ELSE Some(Returned(cur, out, received.val, p.st, Len(rx)))
                  /\ pending' = IF received.ok /\ received.val[1].id # None
                                THEN pending \ {received.val[1].id[1]}
                                ELSE pending
                  /\ failed' = IF out.ok \/ again THEN failed
                               ELSE failed \cup {cur.req.id}
    /\ UNCHANGED <<last_id, timeout, tx, peer, ids>>
    /\ UNCHANGED <<stream, facade, reply, callers>>

\* A faulty variant of Recv: when the receive fails, the request is sent again
\* and the call waits for another response.
RecvResend ==
    /\ pc = "sent"
    /\ LET p == Parse(rx, ResponseKeys)
       IN  \E read \in (IF p.st \in {"end", "more"} THEN ReadAtEnd(peer, timeout)
                        ELSE {"data"}) :
              LET received == recv(rx, read)
                  out == IF cur.api = "call"
                         THEN call(cur.method, cur.req, received)
                         ELSE call_params(cur.method, cur.params, cur.req, received)
                  again == ~received.ok
              IN  /\ rx' = Rest(rx)
                  /\ tx' = IF again THEN tx \o EncodeRequest(cur.req) ELSE tx
                  /\ pc' = IF again THEN "sent" ELSE "idle"
                  /\ cur' = IF again THEN cur ELSE NoCall
                  /\ last' = IF again THEN last
                             ELSE Some(Returned(cur, out, received.val, p.st, Len(rx)))
                  /\ pending' = IF received.ok /\ received.val[1].id # None
                                THEN pending \ {received.val[1].id[1]}
                                ELSE pending
                  /\ failed' = IF out.ok \/ again THEN failed
                               ELSE failed \cup {cur.req.id}
    /\ UNCHANGED <<last_id, timeout, peer, ids>>
    /\ UNCHANGED <<stream, facade, reply, callers>>

\* The second half of call / call_params: stream.recv() returns (a value, an
\* error, the end of the stream or the timeout), then the id and error checks.
Receive ==
    /\ pc = "sent"
    /\ LET p == Parse(rx, ResponseKeys)
       IN  \E read \in (IF p.st \in {"end", "more"} THEN ReadAtEnd(peer, timeout)
                        ELSE {"data"}) :
              LET received == recv(rx, read)
                  out == IF cur.api = "call"
                         THEN call(cur.method, cur.req, received)
                         ELSE call_params(cur.method, cur.params, cur.req, received)
              IN  /\ rx' = Rest(rx)
                  /\ pc' = "idle"
                  /\ cur' = NoCall
                  /\ last' = Some(Returned(cur, out, received.val, p.st, Len(rx)))
                  /\ pending' = IF received.ok /\ received.val[1].id # None
                                THEN pending \ {received.val[1].id[1]}
                                ELSE pending
                  /\ failed' = IF out.ok THEN failed ELSE failed \cup {cur.req.id}
    /\ UNCHANGED <<last_id, timeout, tx, peer, ids>>
    /\ UNCHANGED <<stream, facade, reply>>

\* call / call_params of the only caller of the Client, from recv on.
Recv == Receive /\ UNCHANGED callers

\* The bound on the calls ends the run: once the last call has returned, nothing
\* reads the socket any more and what the peer does is not followed.
Live == pc = "sent" \/ Len(ids) < MaxCalls

\* The fake server of tests::ping_pong: read one request, answer it with its id;
\* the result it produces for a request carries that request's id.
PeerAnswer(val, error) ==
    /\ Live
    /\ peer = "open"
    /\ LET p == Parse(tx, RequestKeys)
       IN  /\ p.st = "value"
           /\ HasKey(p.fields, "method")
           /\ HasKey(p.fields, "id")
           /\ LET request == ReceiveRequest(p.fields)
                  response ==
                      [result |-> IF val = None THEN None
                                  ELSE Some(Result(val[1], request.id[1])),
                       error |-> error, id |-> request.id]
              IN  /\ tx' = Drop(tx, p.used)
                  /\ rx' = rx \o EncodeResponse(response)
    /\ UNCHANGED <<last_id, timeout, pc, cur, peer, ids, last, pending, failed>>
    /\ UNCHANGED <<stream, facade, reply, callers>>

\* Any other peer: it reads what the client wrote and writes a response of its
\* choice, whole or cut short.
PeerWrite(r, n) ==
    /\ Live
    /\ peer = "open"
    /\ tx # <<>>
    /\ tx' = <<>>
    /\ rx' = rx \o Take(EncodeResponse(r), n)
    /\ UNCHANGED <<last_id, timeout, pc, cur, peer, ids, last, pending, failed>>
    /\ UNCHANGED <<stream, facade, reply, callers>>

\* It reads what the client wrote and writes whitespace or a byte that starts no
\* JSON value.
PeerJunk(t) ==
    /\ Live
    /\ peer = "open"
    /\ tx # <<>>
    /\ tx' = <<>>
    /\ rx' = Append(rx, t)
    /\ UNCHANGED <<last_id, timeout, pc, cur, peer, ids, last, pending, failed>>
    /\ UNCHANGED <<stream, facade, reply, callers>>

\* It closes the connection: the client reads the end of the stream.
PeerClose ==
    /\ Live
    /\ peer = "open"
    /\ peer' = "closed"
    /\ UNCHANGED <<last_id, timeout, pc, cur, tx, rx, ids, last, pending, failed>>
    /\ UNCHANGED <<stream, facade, reply, callers>>

\* The connection breaks: the client's reads fail (ECONNRESET).
PeerReset ==
    /\ Live
    /\ peer = "open"
    /\ peer' = "reset"
    /\ UNCHANGED <<last_id, timeout, pc, cur, tx, rx, ids, last, pending, failed>>
    /\ UNCHANGED <<stream, facade, reply, callers>>

Next ==
    \/ \E m \in Methods : Call(m)
    \/ \E m \in Methods, ps \in ParamLists : CallParams(m, ps)
    \/ Recv
    \/ \E t \in ResultTexts : PeerAnswer(Some(t), None)
    \/ PeerAnswer(None, Some("method not found"))
    \/ \E r \in Responses, n \in PeerCuts : PeerWrite(r, n)
    \/ \E t \in {WS, BAD} : PeerJunk(t)
    \/ PeerClose
    \/ PeerReset

Spec == Init /\ [][Next]_vars

\* The peer of tests::ping_pong alone: it answers every request, in order and in
\* time, with a result and no error, and every send succeeds.
NextEcho ==
    \/ \E m \in EchoMethods : Call(m) /\ pc' = "sent"
    \/ \E m \in EchoMethods, ps \in EchoParamLists : CallParams(m, ps) /\ pc' = "sent"
    \/ Recv /\ ~Exhausted(rx, ResponseKeys)
    \/ \E t \in EchoResultTexts : PeerAnswer(Some(t), None)

SpecEcho == Init /\ [][NextEcho]_vars

-----------------------------------------------------------------------------
\* Properties.

Returns == last # None
L == last[1]
Mismatch == Err(Protocol("request and response ids do not match"))
NoId == Err(Protocol("id not found in response"))

\* The call that returned read a response carrying the id of its own request.
Matched == Returns /\ L.got # None /\ L.got[1].id = Some(L.id)

\* C1: the k-th call on a Client builds its request with id k, whatever the
\* outcome of the calls before it: the ids handed out are 1, 2, ..., N.
IdsInCallOrder ==
    /\ \A k \in 1..Len(ids) : ids[k] = k
    /\ pc = "sent" => cur.req.id = Len(ids)
    /\ Returns /\ pc = "idle" => L.id = Len(ids)

IdsAfterFailure ==
    /\ Len(ids) = 2
    /\ 1 \in failed
    /\ pc = "sent"
    /\ cur.req.id = 2

\* C2: a call returns a success only if the response it read carries the id of
\* the request this call sent.
SuccessHasOwnId ==
    Returns /\ L.out.ok => L.got # None /\ L.got[1].id = Some(L.id)

SuccessAfterFailure ==
    /\ Returns
    /\ L.out.ok
    /\ L.id = 2
    /\ 1 \in failed

\* C3: a response without id makes the call fail with Protocol("id not found in
\* response"), whatever its result and error are.
NullIdIsProtocol ==
    Returns /\ L.got # None /\ L.got[1].id = None => L.out = NoId

NullIdWithError ==
    /\ Returns
    /\ L.got # None
    /\ L.got[1].id = None
    /\ L.got[1].error = Some("boom")
    /\ L.got[1].result # None
    /\ L.out = NoId

\* The position of the brace that closes the first value of s.
FirstRB(s) == CHOOSE i \in 1..Len(s) :
                  /\ s[i].t = "RB"
                  /\ \A j \in 1..(i - 1) : s[j].t # "RB"

\* The call in progress has a whole response at the head of the stream whose id
\* is present and is not the id of its request.
MismatchAtHead ==
    /\ pc = "sent"
    /\ Parse(rx, ResponseKeys).st = "value"
    /\ LET r == Response(Parse(rx, ResponseKeys).fields)
       IN  r.id # None /\ r.id[1] # cur.req.id

\* C4: on a response with another id the call returns Protocol("request and
\* response ids do not match") in the step that reads it: it takes that one
\* response out of the stream, reads nothing after it and sends nothing.
MismatchReturns ==
    [][ MismatchAtHead /\ (Len(rx') < Len(rx) \/ pc' # pc)
        => /\ pc' = "idle"
           /\ last' # None
           /\ last'[1].id = cur.req.id
           /\ last'[1].out = Mismatch
           /\ rx' = Drop(rx, FirstRB(rx))
           /\ tx' = tx ]_vars

MismatchSeen ==
    /\ Returns
    /\ L.got # None
    /\ L.got[1].id # None
    /\ L.got[1].id # Some(L.id)
    /\ L.out = Mismatch
    /\ rx # <<>>

\* The text of the joined params of the calls of the model.
Joined(api, params) ==
    IF api = "call" \/ params = <<>> THEN ""
    ELSE IF params = <<"a", "b">> THEN "a, b"
    ELSE params[1]

\* C5 as stated: with a matching id the call fails with Command exactly when the
\* error text is not empty, and returns the result when it is absent or empty.
CommandIffErrorNotEmpty ==
    Matched =>
        IF L.got[1].error # None /\ L.got[1].error[1] # ""
        THEN L.out = Err(Command(L.method, Joined(L.api, L.params), L.got[1].error[1]))
        ELSE L.out = Ok(L.got[1])

\* C5, amended: with a matching id the call fails with Command exactly when the
\* error field is present (not null), the empty text included; when it is absent
\* the call returns the response, whose result may be absent.
CommandIffErrorPresent ==
    Matched =>
        IF L.got[1].error # None
        THEN L.out = Err(Command(L.method, Joined(L.api, L.params), L.got[1].error[1]))
        ELSE L.out = Ok(L.got[1])

EmptyErrorIsCommand ==
    /\ Matched
    /\ L.got[1].error = Some("")
    /\ L.api = "call_params"
    /\ L.out = Err(Command("ping", "a, b", ""))

\* C6: against the peer that answers every request in order with its id, a
\* result and no error, every call succeeds with the result produced for its own
\* request, and nothing is left unread between calls.
EchoCallsSucceed ==
    /\ Returns => /\ L.out.ok
                  /\ L.out.val[1].id = Some(L.id)
                  /\ L.out.val[1].error = None
                  /\ L.out.val[1].result # None
                  /\ L.out.val[1].result[1].extra = L.id
    /\ pc = "idle" => rx = <<>> /\ tx = <<>>

EchoSecondCall ==
    /\ Returns
    /\ pc = "idle"
    /\ L.id = 2
    /\ L.out.ok
    /\ L.out.val[1].result[1].extra = 2

\* C7 as stated: at most one request was sent and has not had its response read.
AtMostOneUnanswered == Cardinality(pending) <= 1

\* C7, amended: of the requests sent whose response was not read, at most one
\* belongs to a call in progress; every other one belongs to a call that returned
\* an error and is abandoned.
UnansweredAreAbandoned ==
    \A i \in pending : (pc = "sent" /\ i = cur.req.id) \/ i \in failed

TwoUnanswered ==
    /\ pc = "sent"
    /\ pending = {1, 2}
    /\ cur.req.id = 2
    /\ 1 \in failed

\* C8 as stated: a receive on an open connection on which no byte arrives before
\* the read timeout elapses yields Timeout.
SilenceIsTimeout ==
    Returns /\ L.st = "end" /\ L.avail = 0 /\ L.peer = "open" => L.out = Err(Timeout)

\* C9 as stated: the peer closing the connection inside a message is reported as
\* Socket.
CloseInsideMessageIsSocket ==
    Returns /\ L.st = "more" /\ L.peer = "closed"
        => ~L.out.ok /\ L.out.err[1].kind = "Socket"

\* C10: when the stream ends (the peer closed) before any byte of a value, the
\* receive yields Timeout.
EndBeforeValueIsTimeout ==
    Returns /\ L.st = "end" /\ L.peer = "closed" => L.out = Err(Timeout)

EndBeforeValue ==
    /\ Returns
    /\ L.st = "end"
    /\ L.avail = 0
    /\ L.peer = "closed"
    /\ L.out = Err(Timeout)

-----------------------------------------------------------------------------
\* A stream on its own: one end sends values one after the other and the other
\* end calls recv, as the client and the fake server of tests::ping_pong do.

MaxValues == 2

\* UnixJsonStream::send on the writing end: serde_json::to_writer appends the
\* encoding of the value to what is in the socket.
StreamSend(r) ==
    /\ Len(wrote) < MaxValues
    /\ rx' = rx \o EncodeResponse(r)
    /\ wrote' = Append(wrote, r)
    /\ UNCHANGED <<last_id, timeout, pc, cur, tx, peer, ids, last, pending, failed, callers>>
    /\ UNCHANGED <<taken, facade, reply>>

\* UnixJsonStream::recv on the reading end, which blocks until a value is there:
\* what it returned and what it left in the socket.
StreamRecv ==
    /\ ~Exhausted(rx, ResponseKeys)
    /\ LET received == recv(rx, "eof")
       IN  /\ received.ok
           /\ taken' = Append(taken, [value |-> received.val[1], left |-> Rest(rx)])
    /\ rx' = Rest(rx)
    /\ UNCHANGED <<last_id, timeout, pc, cur, tx, peer, ids, last, pending, failed, callers>>
    /\ UNCHANGED <<wrote, facade, reply>>

NextStream ==
    \/ \E r \in Responses : StreamSend(r)
    \/ StreamRecv

SpecStream == Init /\ [][NextStream]_vars

RECURSIVE Encodings(_)
\* the encodings of the values of a sequence, one after the other
Encodings(rs) ==
    IF rs = <<>> THEN <<>> ELSE EncodeResponse(Head(rs)) \o Encodings(Tail(rs))

\* C11: the i-th successful receive returns the i-th value written, whole, and
\* the socket holds exactly the encodings of the values not yet received: no
\* value is lost, duplicated or merged with its neighbour, and a receive leaves
\* every token after its value in the socket.
ReceivesInOrder ==
    /\ Len(taken) <= Len(wrote)
    /\ \A i \in 1..Len(taken) :
          /\ taken[i].value = wrote[i]
          /\ LET after == Encodings(SubSeq(wrote, i + 1, Len(wrote)))
             IN  /\ Len(taken[i].left) <= Len(after)
                 /\ taken[i].left = Take(after, Len(taken[i].left))
    /\ rx = Encodings(SubSeq(wrote, Len(taken) + 1, Len(wrote)))

\* Two different values were written back to back before the first receive,
\* which left the second in the socket for the second receive.
TwoBackToBack ==
    /\ Len(taken) = 2
    /\ wrote[1] # wrote[2]
    /\ taken[1].left = EncodeResponse(wrote[2])
    /\ rx = <<>>

-----------------------------------------------------------------------------
\* ovs.rs: finding the control socket of a daemon under the run directory.
\* A file is a record: its path, its kind ("text": a readable file, "denied": a
\* file that cannot be read, "socket": a listening Unix socket) and, for a text
\* file, its content as a sequence of characters.

MaxPidLen == 2

DEFAULT_RUNDIR == "/var/run/openvswitch"
Targets == {"ovs-vswitchd", "ovsdb-server"}
Whitespace == {" ", "\n", "\t"}
PidChars == {" ", "\n", "7"}
PidTexts == UNION {[1..n -> PidChars] : n \in 0..MaxPidLen}
SocketPids == {"7", "77"}

File(path, kind, content) == [path |-> path, kind |-> kind, text |-> content]

\* Path::exists
exists(path) == \E f \in files : f.path = path

\* fs::read_to_string
read_to_string(path) ==
    IF \E f \in files : f.path = path /\ f.kind = "text"
    THEN Ok((CHOOSE f \in files : f.path = path /\ f.kind = "text").text)
    ELSE Err(Error("Io", path))

RECURSIVE trim_start(_)
trim_start(s) ==
    IF s # <<>> /\ Head(s) \in Whitespace THEN trim_start(Tail(s)) ELSE s

RECURSIVE trim_end(_)
trim_end(s) ==
    IF s # <<>> /\ s[Len(s)] \in Whitespace
    THEN trim_end(SubSeq(s, 1, Len(s) - 1)) ELSE s

\* A faulty variant of trim: the text is taken as it is.
trimNone(s) == s

\* str::trim: the text without its leading and trailing whitespace
trim(s) == trim_end(trim_start(s))

RECURSIVE Display(_)
\* the characters of a text as one string, as format! writes them
Display(s) == IF s = <<>> THEN "" ELSE Head(s) \o Display(Tail(s))

\* Path::join of a directory and a file name
join(dir, name) == dir \o "/" \o name

\* A faulty variant of find_socket_at: the socket is not looked for.
find_socket_atUnchecked(target, rundir) ==
    LET pid_file == read_to_string(join(rundir, target \o ".pid"))
    IN  IF ~pid_file.ok \/ trim(pid_file.val[1]) = <<>> THEN Err(OvsNotRunning)
        ELSE Ok(join(rundir, target \o "." \o Display(trim(pid_file.val[1])) \o ".ctl"))

\* OvsUnixCtl::find_socket_at
find_socket_at(target, rundir) ==
    LET pidfile_path == join(rundir, target \o ".pid")
        pid_file == read_to_string(pidfile_path)
    IN  IF ~pid_file.ok THEN Err(OvsNotRunning)
        ELSE LET pid_str == trim(pid_file.val[1])
                 sock_path == join(rundir, target \o "." \o Display(pid_str) \o ".ctl")
             IN  IF pid_str = <<>> THEN Err(OvsNotRunning)
                 ELSE IF ~exists(sock_path) THEN Err(SocketNotFound(sock_path))
                 ELSE Ok(sock_path)

\* The record of a discovery or of a construction that returned.
Built(how, target, path, out, log) ==
    [how |-> how, target |-> target, path |-> path, out |-> out, log |-> log]

PidPath(t) == join(DEFAULT_RUNDIR, t \o ".pid")
CtlPaths == {join(DEFAULT_RUNDIR, t \o "." \o p \o ".ctl") : t \in Targets, p \in SocketPids}

\* The daemon (or anyone) writes the pid file of a target.
WritePid(t, content) ==
    /\ files' = {f \in files : f.path # PidPath(t)} \cup {File(PidPath(t), "text", content)}
    /\ built' = None
    /\ UNCHANGED <<last_id, timeout, pc, cur, tx, rx, peer, ids, last, pending, failed, callers>>
    /\ UNCHANGED <<stream, ctor, reply>>

\* The pid file of a target is there but cannot be read.
DenyPid(t) ==
    /\ files' = {f \in files : f.path # PidPath(t)} \cup {File(PidPath(t), "denied", <<>>)}
    /\ built' = None
    /\ UNCHANGED <<last_id, timeout, pc, cur, tx, rx, peer, ids, last, pending, failed, callers>>
    /\ UNCHANGED <<stream, ctor, reply>>

\* A daemon binds its control socket.
Bind(path) ==
    /\ ~exists(path)
    /\ files' = files \cup {File(path, "socket", <<>>)}
    /\ built' = None
    /\ UNCHANGED <<last_id, timeout, pc, cur, tx, rx, peer, ids, last, pending, failed, callers>>
    /\ UNCHANGED <<stream, ctor, reply>>

\* A file is removed.
Unlink(path) ==
    /\ exists(path)
    /\ files' = {f \in files : f.path # path}
    /\ built' = None
    /\ UNCHANGED <<last_id, timeout, pc, cur, tx, rx, peer, ids, last, pending, failed, callers>>
    /\ UNCHANGED <<stream, ctor, reply>>

\* A call of find_socket_at on the files as they are now.
FindSocketAt(t) ==
    /\ built' = Some(Built("find_socket_at", t, "", find_socket_at(t, DEFAULT_RUNDIR), <<>>))
    /\ UNCHANGED <<last_id, timeout, pc, cur, tx, rx, peer, ids, last, pending, failed, callers>>
    /\ UNCHANGED <<stream, files, ctor, reply>>

NextFind ==
    \/ \E t \in Targets, s \in PidTexts : WritePid(t, s)
    \/ \E t \in Targets : DenyPid(t)
    \/ \E path \in CtlPaths : Bind(path)
    \/ \E f \in files : Unlink(f.path)
    \/ \E t \in Targets : FindSocketAt(t)

SpecFind == Init /\ [][NextFind]_vars

B == built[1]
Found == built # None /\ B.how = "find_socket_at"

\* The pid file of the target searched, when it is a readable file.
PidFiles == {f \in files : Found /\ f.path = PidPath(B.target) /\ f.kind = "text"}
Blank(s) == \A i \in 1..Len(s) : s[i] \in Whitespace

\* C12: find_socket_at fails with OvsNotRunning exactly when the pid file of the
\* target is absent or unreadable or holds nothing but whitespace, whatever
\* sockets exist; it then returns no path.
NotRunningIffNoPid ==
    Found => (B.out = Err(OvsNotRunning) <=> \A f \in PidFiles : Blank(f.text))

\* A pid file of whitespace only, next to a socket of the target: not running.
BlankPidBesideSocket ==
    /\ Found
    /\ B.out = Err(OvsNotRunning)
    /\ \E f \in PidFiles : f.text = <<" ", "\n">>
    /\ exists(join(DEFAULT_RUNDIR, B.target \o ".7.ctl"))

\* The text between the first and the last character that is not whitespace.
Core(s) ==
    LET inked == {i \in 1..Len(s) : s[i] \notin Whitespace}
        first == CHOOSE i \in inked : \A j \in inked : i <= j
        final == CHOOSE i \in inked : \A j \in inked : j <= i
    IN  SubSeq(s, first, final)

\* C13: with a readable pid file that is not blank, find_socket_at composes
\* <rundir>/<target>.<trimmed pid>.ctl from the files as they are at the call;
\* it returns exactly that path when it exists and SocketNotFound carrying
\* exactly that path when it does not.
SocketPathFromPid ==
    \A f \in PidFiles : ~Blank(f.text) =>
        LET path == DEFAULT_RUNDIR \o "/" \o B.target \o "." \o Display(Core(f.text)) \o ".ctl"
        IN  B.out = IF \E g \in files : g.path = path
                    THEN Ok(path) ELSE Err(SocketNotFound(path))

\* The pid is found between whitespace and the socket of that pid exists, next
\* to a socket of another pid.
TrimmedPidFound ==
    /\ Found
    /\ \E f \in PidFiles : f.text = <<"7", "\n">>
    /\ B.out = Ok("/var/run/openvswitch/ovsdb-server.7.ctl")
    /\ exists("/var/run/openvswitch/ovsdb-server.77.ctl")

-----------------------------------------------------------------------------
\* ovs.rs: the three ways to construct an OvsUnixCtl.  A construction looks at
\* the files at up to three moments (the discovery, the test of the path, the
\* connect) and the files may change in between; its log lists what it looked
\* at and whether that was there.

OtherRundir == "/tmp/ovs"
Environment == {None, Some(OtherRundir)}
DaemonPids == {<<"7", "\n">>}
DaemonSockets == {join(DEFAULT_RUNDIR, t \o ".7.ctl") : t \in Targets}
ExplicitPaths == DaemonSockets \cup {PidPath("ovs-vswitchd")}

Event(op, path, there) == [op |-> op, path |-> path, there |-> there]

\* OvsUnixCtl::find_socket: the run directory is $OVS_RUNDIR or the default.
find_socket(target, env) ==
    find_socket_at(target, IF env = None THEN DEFAULT_RUNDIR ELSE env[1])

\* A faulty variant of unix_check: the path is not tested.
unix_checkNone(path) == Ok(path)

\* The head of OvsUnixCtl::unix: a path that does not exist is SocketNotFound.
unix_check(path) ==
    IF ~exists(path) THEN Err(SocketNotFound(path)) ELSE Ok(path)

Listening(path) == \E f \in files : f.path = path /\ f.kind = "socket"

\* UnixJsonStreamClient::connect: UnixStream::connect(..).map_err(Error::Socket)
connect(path) == IF Listening(path) THEN Ok(path) ELSE Err(Socket("connect"))

\* OvsUnixCtl::new and with_target up to the return of find_socket: its error
\* is the outcome of the construction (`?`), its path goes to OvsUnixCtl::unix.
Discover(how, target, env) ==
    /\ ctor.pc = "none"
    /\ LET found == find_socket(target, env)
           log == <<Event("find", IF found.ok THEN found.val[1] ELSE "", found.ok)>>
       IN  IF found.ok
           THEN /\ ctor' = [pc |-> "found", how |-> how, target |-> target,
                            path |-> found.val[1], log |-> log]
                /\ built' = None
           ELSE /\ built' = Some(Built(how, target, "", found, log))
                /\ ctor' = ctor
    /\ UNCHANGED <<last_id, timeout, pc, cur, tx, rx, peer, ids, last, pending, failed, callers>>
    /\ UNCHANGED <<stream, files, reply>>

New(env) == Discover("new", "ovs-vswitchd", env)
WithTarget(target, env) == Discover("with_target", target, env)

\* OvsUnixCtl::unix called with a path of the caller.
UnixAt(path) ==
    /\ ctor.pc = "none"
    /\ ctor' = [pc |-> "found", how |-> "unix", target |-> "", path |-> path, log |-> <<>>]
    /\ built' = None
    /\ UNCHANGED <<last_id, timeout, pc, cur, tx, rx, peer, ids, last, pending, failed, callers>>
    /\ UNCHANGED <<stream, files, reply>>

\* OvsUnixCtl::unix: the test of the path.
CheckPath ==
    /\ ctor.pc = "found"
    /\ LET checked == unix_check(ctor.path)
           log == Append(ctor.log, Event("exists", ctor.path, exists(ctor.path)))
       IN  IF checked.ok
           THEN /\ ctor' = [ctor EXCEPT !.pc = "checked", !.log = log]
                /\ built' = built
           ELSE /\ built' = Some(Built(ctor.how, ctor.target, ctor.path, checked, log))
                /\ ctor' = NoConstruction
    /\ UNCHANGED <<last_id, timeout, pc, cur, tx, rx, peer, ids, last, pending, failed, callers>>
    /\ UNCHANGED <<stream, files, reply>>

\* OvsUnixCtl::unix: Client::unix(path, timeout)?, one connect.
Connect ==
    /\ ctor.pc = "checked"
    /\ LET log == Append(ctor.log, Event("connect", ctor.path, Listening(ctor.path)))
       IN  built' = Some(Built(ctor.how, ctor.target, ctor.path, connect(ctor.path), log))
    /\ ctor' = NoConstruction
    /\ UNCHANGED <<last_id, timeout, pc, cur, tx, rx, peer, ids, last, pending, failed, callers>>
    /\ UNCHANGED <<stream, files, reply>>

NextBuild ==
    \/ \E env \in Environment : New(env)
    \/ \E t \in Targets, env \in Environment : WithTarget(t, env)
    \/ \E path \in ExplicitPaths : UnixAt(path)
    \/ CheckPath
    \/ Connect
    \/ \E t \in Targets, s \in DaemonPids : WritePid(t, s)
    \/ \E path \in DaemonSockets : Bind(path)
    \/ \E f \in files : Unlink(f.path)

SpecBuild == Init /\ [][NextBuild]_vars

Constructed == built # None /\ B.how \in {"new", "with_target", "unix"}

\* A log in which a connect comes at most once, as the last entry, straight
\* after the test that found its path to exist, and in which nothing follows a
\* discovery or a test that failed.
ConnectFollowsFound(log) ==
    \A i \in 1..Len(log) :
        /\ log[i].op = "connect" =>
              /\ i = Len(log) /\ i > 1
              /\ log[i - 1] = Event("exists", log[i].path, TRUE)
        /\ log[i].op # "connect" /\ ~log[i].there => i = Len(log)
        /\ log[i].op = "find" => i = 1

\* C14: every construction connects at most once and only to a path it has just
\* found to exist; a failed discovery is the outcome of the construction,
\* without a test or a connect after it; an explicit path that does not exist
\* is SocketNotFound carrying that path, without a connect.
ConnectsOnlyAfterFound ==
    /\ ConnectFollowsFound(ctor.log)
    /\ Constructed =>
          /\ ConnectFollowsFound(B.log)
          /\ B.how # "unix" /\ ~B.log[1].there =>
                /\ Len(B.log) = 1
                /\ ~B.out.ok
                /\ B.out.err[1].kind \in {"OvsNotRunning", "SocketNotFound"}
          /\ B.log[Len(B.log)] = Event("exists", B.path, FALSE) =>
                B.out = Err(SocketNotFound(B.path))
          /\ B.out.ok => B.log[Len(B.log)] = Event("connect", B.path, TRUE)

\* A discovery that succeeded, a test that found the path and one connect.
DiscoveredAndConnected ==
    /\ Constructed
    /\ B.how = "with_target"
    /\ B.out.ok
    /\ Len(B.log) = 3

-----------------------------------------------------------------------------
\* ovs.rs: version().  The result text of the response is a sequence of
\* characters; the daemon name and " (Open vSwitch) " are written as one
\* character each.  The variable text holds the result as the daemon composed
\* it: a prefix, pieces of text joined by separators, and an end of line.

MaxPieces == 4

Marker == " (Open vSwitch) "
Daemons == {"ovs-vswitchd", "ovsdb-server", "daemon"}
Prefixes == {<<d, Marker>> : d \in Daemons} \cup {<<>>}
Pieces == {<<>>, <<"3">>, <<"1", "2">>, <<"x">>}
Separators == {".", "-"}
LineEnds == {<<>>, <<"\n">>}
Digits == <<"0", "1", "2", "3", "4", "5", "6", "7", "8", "9">>

VersionShapes ==
    UNION {[prefix : Prefixes, pieces : [1..n -> Pieces],
            seps : [1..(n - 1) -> Separators], tail : LineEnds] : n \in 1..MaxPieces}

RECURSIVE Weave(_, _)
\* the pieces with the separators between them
Weave(pieces, seps) ==
    IF Len(pieces) = 1 THEN pieces[1]
    ELSE pieces[1] \o <<seps[1]>> \o Weave(Tail(pieces), Tail(seps))

\* the characters of the result text
Characters(shape) == shape.prefix \o Weave(shape.pieces, shape.seps) \o shape.tail

\* str::strip_prefix
strip_prefix(s, prefix) ==
    IF Len(s) >= Len(prefix) /\ Take(s, Len(prefix)) = prefix
    THEN Some(Drop(s, Len(prefix))) ELSE None

RECURSIVE splitn(_, _, _)
\* str::splitn(n, pattern): at most n parts, the last one is the whole remainder
splitn(n, s, pattern) ==
    LET at == {i \in 1..Len(s) : s[i] \in pattern}
        i == CHOOSE i \in at : \A j \in at : i <= j
    IN  IF n = 1 \/ at = {} THEN <<s>>
        ELSE <<Take(s, i - 1)>> \o splitn(n - 1, Drop(s, i), pattern)

IsDigit(c) == \E d \in 1..10 : Digits[d] = c
DigitValue(c) == (CHOOSE d \in 1..10 : Digits[d] = c) - 1

RECURSIVE Decimal(_)
Decimal(s) == IF s = <<>> THEN 0 ELSE 10 * Decimal(Take(s, Len(s) - 1)) + DigitValue(s[Len(s)])

\* A faulty variant of parse: a text that is no number reads as zero.
parseLenient(s) ==
    IF s # <<>> /\ \A i \in 1..Len(s) : IsDigit(s[i]) THEN Ok(Decimal(s)) ELSE Ok(0)

\* str::parse::<u32>, on texts without a sign.  Every number of up to nine
\* digits fits in 32 bits; the texts of the model are shorter than ten digits,
\* where the limit of u32 lies.
parse(s) ==
    IF s = <<>> THEN Err("cannot parse integer from empty string")
    ELSE IF \E i \in 1..Len(s) : ~IsDigit(s[i]) THEN Err("invalid digit found in string")
    ELSE IF Len(s) > 9 THEN Err("number too large to fit in target type")
    ELSE Ok(Decimal(s))

\* InvalidResponse("version", result or "").error(error)
InvalidVersion(result, error) ==
    Err(OvsInvalidResponse("version",
                           IF result = None THEN "" ELSE Display(result[1]), error))

CantParse(s, e) == "can't parse " \o Display(s) \o ": " \o e

\* OvsUnixCtl::version on the result of the response to "version"
version(result) ==
    IF result = None THEN InvalidVersion(result, "should not be empty")
    ELSE LET stripped == strip_prefix(trim(result[1]), <<"ovs-vswitchd", Marker>>)
         IN  IF stripped = None THEN InvalidVersion(result, "invalid prefix")
             ELSE LET parts == splitn(4, stripped[1], Separators)
                      x == parse(parts[1])
                      y == parse(parts[2])
                      z == parse(parts[3])
                  IN  IF Len(parts) \notin {3, 4} THEN InvalidVersion(result, "parse error")
                      ELSE IF ~x.ok THEN InvalidVersion(result, CantParse(parts[1], x.err[1]))
                      ELSE IF ~y.ok THEN InvalidVersion(result, CantParse(parts[2], y.err[1]))
                      ELSE IF ~z.ok THEN InvalidVersion(result, CantParse(parts[3], z.err[1]))
                      ELSE Ok(<<x.val[1], y.val[1], z.val[1],
                                IF Len(parts) = 4 THEN Display(parts[4]) ELSE "">>)

\* The daemon answers "version" with a result text.
VersionReply ==
    /\ text = None /\ parsed = None
    /\ \E shape \in VersionShapes : text' = Some(shape)
    /\ UNCHANGED <<last_id, timeout, pc, cur, tx, rx, peer, ids, last, pending, failed, callers>>
    /\ UNCHANGED <<stream, facade, parsed>>

\* version() on the response read: its result is absent or the text composed.
Version ==
    /\ parsed = None
    /\ parsed' = Some(version(IF text = None THEN None ELSE Some(Characters(text[1]))))
    /\ UNCHANGED <<last_id, timeout, pc, cur, tx, rx, peer, ids, last, pending, failed, callers>>
    /\ UNCHANGED <<stream, facade, text>>

NextVersion ==
    \/ VersionReply
    \/ Version

SpecVersion == Init /\ [][NextVersion]_vars

P == parsed[1]
T == text[1]

\* The pieces that are unsigned numbers, and the number each one writes.
Numeric(piece) == piece \in {<<"3">>, <<"1", "2">>}
Number(piece) == IF piece = <<"3">> THEN 3 ELSE 12

\* The text after the third separator, as the daemon composed it.
PatchText(shape) ==
    IF Len(shape.pieces) = 3 THEN ""
    ELSE Display(Weave(SubSeq(shape.pieces, 4, Len(shape.pieces)),
                       SubSeq(shape.seps, 4, Len(shape.seps))))

\* C15: on "<daemon-name> (Open vSwitch) X.Y.Z", whatever the daemon name,
\* version() returns (X, Y, Z, ""), and with '.' or '-' and a patch text after
\* Z it returns (X, Y, Z, patch text).
VersionOfAnyDaemon ==
    parsed # None /\ text # None /\ T.prefix # <<>> /\ Len(T.pieces) >= 3
        /\ (\A i \in 1..3 : Numeric(T.pieces[i]))
    => P = Ok(<<Number(T.pieces[1]), Number(T.pieces[2]), Number(T.pieces[3]),
                PatchText(T)>>)

PrefixMissing == T.prefix # <<"ovs-vswitchd", Marker>>
FirstBad(pieces) ==
    pieces[CHOOSE i \in 1..3 : ~Numeric(pieces[i]) /\ \A j \in 1..(i - 1) : Numeric(pieces[j])]
ParseErrors == {"cannot parse integer from empty string", "invalid digit found in string"}

-----------------------------------------------------------------------------
\* ovs.rs: list_commands().  The variable text holds the result as the daemon
\* composed it: a header and lines, each a name and an argument signature with
\* whitespace before, between and after them.

MaxLines == 2

Headers == {<<"H", ":">>, <<>>}
Names == {<<>>, <<"a">>, <<"b", "/", "c">>}
Signatures == {<<>>, <<"x", " ", "[", "y", "]">>}
Leads == {<<>>, <<" ", " ">>}
Gaps == {<<" ">>, <<"\t", " ">>}
Trails == {<<>>, <<" ">>}

\* A line without a name is blank: whitespace only.
LineShapes ==
    {l \in [lead : Leads, name : Names, gap : Gaps, args : Signatures, trail : Trails] :
        l.name = <<>> => l.args = <<>> /\ l.trail = <<>>}

ListShapes ==
    UNION {[header : Headers, rows : [1..n -> LineShapes], tail : LineEnds] :
           n \in 0..MaxLines}

Line(l) == l.lead \o l.name \o l.gap \o l.args \o l.trail

RECURSIVE Rows(_)
Rows(rows) == IF rows = <<>> THEN <<>> ELSE <<"\n">> \o Line(Head(rows)) \o Rows(Tail(rows))

\* the characters of the result text
ListCharacters(shape) == shape.header \o Rows(shape.rows) \o shape.tail

RECURSIVE lines(_)
\* str::lines: the text between line feeds; a last line need not end with one
lines(s) ==
    LET at == {i \in 1..Len(s) : s[i] = "\n"}
        i == CHOOSE i \in at : \A j \in at : i <= j
    IN  IF s = <<>> THEN <<>>
        ELSE IF at = {} THEN <<s>>
        ELSE <<Take(s, i - 1)>> \o lines(Drop(s, i))

\* Iterator::skip
skip(n, s) == Drop(s, IF n < Len(s) THEN n ELSE Len(s))

\* str::split_once(char::is_whitespace)
split_once(s) ==
    LET at == {i \in 1..Len(s) : s[i] \in Whitespace}
        i == CHOOSE i \in at : \A j \in at : i <= j
    IN  IF at = {} THEN None ELSE Some(<<Take(s, i - 1), Drop(s, i)>>)

\* the closure of list_commands: one line to one pair
pair(l) ==
    LET halves == split_once(trim(l))
        cmd == IF halves = None THEN l ELSE halves[1][1]
        args == IF halves = None THEN <<>> ELSE halves[1][2]
    IN  <<Display(trim(cmd)), Display(trim(args))>>

\* A faulty variant of list_commands: the header is taken for a command.
list_commandsWithHeader(result) ==
    IF result = None
    THEN Err(OvsInvalidResponse("list-commands", "", "should not be empty"))
    ELSE Ok([i \in 1..Len(lines(result[1])) |-> pair(lines(result[1])[i])])

\* OvsUnixCtl::list_commands on the result of the response to "list-commands"
list_commands(result) ==
    IF result = None
    THEN Err(OvsInvalidResponse("list-commands", "", "should not be empty"))
    ELSE LET ls == skip(1, lines(result[1]))
         IN  Ok([i \in 1..Len(ls) |-> pair(ls[i])])

\* The daemon answers "list-commands" with a result text.
ListReply ==
    /\ text = None /\ parsed = None
    /\ \E shape \in ListShapes : text' = Some(shape)
    /\ UNCHANGED <<last_id, timeout, pc, cur, tx, rx, peer, ids, last, pending, failed, callers>>
    /\ UNCHANGED <<stream, facade, parsed>>

\* list_commands() on the response read: its result is absent or the text.
ListCommands ==
    /\ parsed = None
    /\ parsed' = Some(list_commands(IF text = None THEN None
                                    ELSE Some(ListCharacters(text[1]))))
    /\ UNCHANGED <<last_id, timeout, pc, cur, tx, rx, peer, ids, last, pending, failed, callers>>
    /\ UNCHANGED <<stream, facade, text>>

NextList ==
    \/ ListReply
    \/ ListCommands

SpecList == Init /\ [][NextList]_vars

\* C17: list_commands() returns one pair per line after the header, in the
\* order of the lines: the name and the argument signature of the line, both
\* without the whitespace around them (an empty signature when the line has
\* none); the header gives no pair; an absent result is OvsInvalidResponse.
OnePairPerLine ==
    parsed # None =>
        /\ text = None =>
              P = Err(OvsInvalidResponse("list-commands", "", "should not be empty"))
        /\ text # None =>
              /\ P.ok
              /\ Len(P.val[1]) = Len(T.rows)
              /\ \A i \in 1..Len(T.rows) :
                    P.val[1][i] = <<Display(T.rows[i].name), Display(T.rows[i].args)>>

\* Two lines after the header, the first with a signature after a gap of two
\* whitespace characters and the second a name alone with whitespace around it.
TwoCommandsListed ==
    /\ parsed # None /\ text # None
    /\ T.header = <<"H", ":">>
    /\ Len(T.rows) = 2
    /\ T.rows[1].gap = <<"\t", " ">> /\ T.rows[2].lead = <<" ", " ">>
    /\ P = Ok(<<(<<"b/c", "x [y]">>), (<<"a", "">>)>>)

-----------------------------------------------------------------------------
\* One call: one send, one receive.

\* s is t with something taken from its head, or t itself
IsSuffix(s, t) == Len(s) <= Len(t) /\ s = Drop(t, Len(t) - Len(s))
\* s is t with something added at its end, or t itself
Extends(s, t) == Len(t) <= Len(s) /\ Take(s, Len(t)) = t

\* C18: a call writes at most one request to the socket, when it starts, and
\* reads at most one value from it, when it returns; it sends nothing after it
\* has read, and reads nothing while it sends.  A call whose send fails returns
\* that Socket error without reading; a call whose receive fails returns the
\* error of recv as it is, without sending or reading again.
OneSendOneReceive ==
    [][ /\ pc = "idle" /\ ids' # ids =>
              /\ rx' = rx
              /\ \E n \in 0..5 :
                    tx' = tx \o Take(EncodeRequest(IF pc' = "sent" THEN cur'.req
                                                   ELSE [method |-> last'[1].method,
                                                         params |-> last'[1].params,
                                                         id |-> last'[1].id]), n)
              /\ pc' = "sent" => last' = last
              /\ pc' = "idle" =>
                    /\ last'[1].out = Err(Socket("Io"))
                    /\ last'[1].got = None
                    /\ last'[1].id = Len(ids')
        /\ pc = "sent" /\ pc' = "sent" =>
              /\ cur' = cur /\ last' = last /\ ids' = ids
              /\ IsSuffix(tx', tx)
              /\ Extends(rx', rx)
        /\ pc = "sent" /\ pc' = "idle" =>
              /\ tx' = tx /\ ids' = ids /\ last_id' = last_id
              /\ IsSuffix(rx', rx)
              /\ last'[1].id = cur.req.id
              /\ last'[1].got # None =>
                    /\ rx # <<>>
                    /\ rx' = Drop(rx, FirstRB(rx))
              /\ last'[1].got = None =>
                    \E read \in {"eof", "ioerr"} : last'[1].out = recv(rx, read)
      ]_vars

\* The only call so far lost its response to the timeout: its request is in the
\* socket once, nothing was read, and the call has returned the error of recv.
ReceiveFailedOnce ==
    /\ Returns /\ pc = "idle"
    /\ Len(ids) = 1
    /\ L.st = "end" /\ L.peer = "open"
    /\ L.out = Err(Socket("Io"))
    /\ tx = EncodeRequest([method |-> L.method, params |-> L.params, id |-> 1])
    /\ rx = <<>>

-----------------------------------------------------------------------------
\* call(method) beside call_params(method, &[]): the same peer as in Spec, which
\* answers, writes responses of its own or closes, and calls without params
\* made through either method.

NextPair ==
    \/ \E m \in Methods : Call(m)
    \/ \E m \in Methods : CallParams(m, <<>>)
    \/ Recv
    \/ \E t \in ResultTexts : PeerAnswer(Some(t), None)
    \/ PeerAnswer(None, Some("method not found"))
    \/ \E r \in Responses : PeerWrite(r, 5)
    \/ PeerClose

SpecPair == Init /\ [][NextPair]_vars

\* C19: a call without params behaves the same through call and through
\* call_params with an empty list.  The request in flight is (method, [], id
\* of the counter before the call) and the counter is one further, whichever
\* method made it; whatever recv returns next, both methods turn it into the
\* same outcome; and the outcome of the call that returned is the one either
\* method gives for what was read, a Command error carrying "" as params.
CallIsCallParamsEmpty ==
    /\ pc = "sent" /\ cur.params = <<>> =>
          /\ cur.req = [method |-> cur.method, params |-> <<>>, id |-> Len(ids)]
          /\ last_id = Len(ids) + 1
          /\ tx # <<>> => Drop(tx, Len(tx) - 5) = EncodeRequest(cur.req)
          /\ \A read \in {"data", "eof", "ioerr"} :
                call(cur.method, cur.req, recv(rx, read))
                  = call_params(cur.method, <<>>, cur.req, recv(rx, read))
    /\ Returns /\ L.params = <<>> /\ L.got # None =>
          LET request == [method |-> L.method, params |-> <<>>, id |-> L.id]
          IN  /\ L.out = call(L.method, request, Ok(L.got[1]))
              /\ L.out = call_params(L.method, <<>>, request, Ok(L.got[1]))
              /\ ~L.out.ok /\ L.out.err[1].kind = "Command" =>
                    L.out.err[1].params = ""

\* call_params with an empty list returned the error of the peer as a Command
\* error with empty params, as call does.
EmptyParamsCommand ==
    /\ Returns
    /\ L.api = "call_params" /\ L.params = <<>>
    /\ L.out = Err(Command("ping", "", "method not found"))

-----------------------------------------------------------------------------
\* A slow peer: the fake server of tests::ping_pong, which answers every request
\* in order with its id, but not always before the read timeout of the client
\* elapses.  It never closes and every send succeeds.

NextLate ==
    \/ \E m \in EchoMethods : Call(m) /\ pc' = "sent"
    \/ \E m \in EchoMethods, ps \in EchoParamLists : CallParams(m, ps) /\ pc' = "sent"
    \/ Recv
    \/ \E t \in EchoResultTexts : PeerAnswer(Some(t), None)

SpecLate == Init /\ [][NextLate]_vars

\* The call that returned found no response in time.
TimedOut == Returns /\ L.got = None

\* After a call that found no response in time, every call that reads a
\* response reads the one to an earlier request and fails with the id mismatch;
\* no later call succeeds.
StaleResponsesMismatch ==
    Returns /\ (\E i \in failed : i < L.id) =>
        /\ ~L.out.ok
        /\ L.got # None => /\ L.out = Mismatch
                           /\ L.got[1].id[1] < L.id

\* C20: a call whose response comes late fails with Timeout, and from then on
\* the connection is out of step: the next call reads the late response and
\* fails with Protocol (ids do not match), and so does every later call.
LateResponseDesynchronises ==
    /\ TimedOut => L.out = Err(Timeout)
    /\ StaleResponsesMismatch

-----------------------------------------------------------------------------
\* build_request called by several threads at once.  It takes &self, so the
\* threads that share the Client may be inside it together; what they share is
\* the AtomicUsize, and fetch_add is one read-modify-write of it.

MaxBuilds == 4

\* A faulty variant of BuildRequest: the counter is read in one step and written
\* back, one higher, in another (a load and a store in place of fetch_add).
BuildRequestLoadStore(t, method, params) ==
    /\ \/ /\ callers[t].pc = "out"
          /\ Len(ids) + Cardinality({u \in Callers : callers[u].pc = "loaded"}) < MaxBuilds
          /\ callers' = [callers EXCEPT ![t].pc = "loaded", ![t].reg = last_id]
          /\ UNCHANGED <<last_id, ids>>
       \/ /\ callers[t].pc = "loaded"
          /\ last_id' = callers[t].reg + 1
          /\ ids' = Append(ids, callers[t].reg)
          /\ callers' = [callers EXCEPT ![t].pc = "out",
                                        ![t].got = Append(@, callers[t].reg)]
    /\ UNCHANGED <<timeout, pc, cur, tx, rx, peer, last, pending, failed>>
    /\ UNCHANGED <<stream, facade, reply>>

\* Client::build_request by thread t: the request takes the value fetch_add
\* returns and the counter moves on, in one step.
BuildRequest(t, method, params) ==
    /\ callers[t].pc = "out"
    /\ Len(ids) < MaxBuilds
    /\ LET request == build_request(method, params)
       IN  /\ last_id' = fetch_add(last_id)
           /\ ids' = Append(ids, request.id)
           /\ callers' = [callers EXCEPT ![t].got = Append(@, request.id)]
    /\ UNCHANGED <<timeout, pc, cur, tx, rx, peer, last, pending, failed>>
    /\ UNCHANGED <<stream, facade, reply>>

NextIds == \E t \in Callers, m \in Methods, ps \in ParamLists : BuildRequest(t, m, ps)

SpecIds == Init /\ [][NextIds]_vars

\* The ids thread t obtained.
IdsOf(t) == {callers[t].got[i] : i \in 1..Len(callers[t].got)}
Invocations == Len(callers["a"].got) + Len(callers["b"].got) + Len(callers["c"].got)

\* C21: whatever the interleaving of the threads, no id is handed out twice,
\* neither to one thread nor to two, and after N invocations the ids handed
\* out are exactly 1, ..., N and the counter is N + 1.
IdsDistinctAcrossCallers ==
    /\ \A t \in Callers : Cardinality(IdsOf(t)) = Len(callers[t].got)
    /\ \A t, u \in Callers : t # u => IdsOf(t) \cap IdsOf(u) = {}
    /\ UNION {IdsOf(t) : t \in Callers} = 1..Invocations
    /\ Len(ids) = Invocations
    /\ last_id = Invocations + 1

\* Three threads built four requests between them, their invocations
\* alternating: thread a has ids 1 and 4, b has 2, c has 3.
CallersAlternate ==
    /\ callers["a"].got = <<1, 4>>
    /\ callers["b"].got = <<2>>
    /\ callers["c"].got = <<3>>

-----------------------------------------------------------------------------
\* One Client used by several callers.  call, call_params and send_request take
\* &mut self, and so do send and recv of the stream: a caller holds the Client
\* exclusively from the start of its call to its return, whatever wraps the
\* Client to share it.  The peer is the slow one of SpecLate.

\* Caller t enters call(method): build_request and stream.send.
SharedCall(t, method) ==
    /\ callers[t].pc = "out"
    /\ StartCall("call", method, <<>>)
    /\ pc' = "sent"
    /\ callers' = [callers EXCEPT ![t].pc = "in",
                                  ![t].reg = last_id,
                                  ![t].got = Append(@, last_id)]

\* Caller t, inside its call: stream.recv returns, the checks, the return.
SharedRecv(t) ==
    /\ callers[t].pc = "in"
    /\ Receive
    /\ callers' = [callers EXCEPT ![t].pc = "out"]

NextShared ==
    \/ \E t \in Callers, m \in EchoMethods : SharedCall(t, m)
    \/ \E t \in Callers : SharedRecv(t)
    \/ \E r \in EchoResultTexts : PeerAnswer(Some(r), None)

SpecShared == Init /\ [][NextShared]_vars

\* The callers that are between the send and the receive of a call.
Inside == {t \in Callers : callers[t].pc = "in"}

\* The call that returned read the response to the request of another call.
ReadOthersResponse ==
    /\ Returns
    /\ L.got # None
    /\ L.got[1].id # None
    /\ L.got[1].id[1] # L.id

\* A call that reads the response to another call's request fails with the id
\* mismatch, and a call that succeeds read the response to its own request.
OthersResponseIsMismatch ==
    /\ ReadOthersResponse => L.out = Mismatch
    /\ Returns /\ L.out.ok => L.got # None /\ L.got[1].id = Some(L.id)

\* The calls on one Client are serialised: at most one caller is between the
\* send and the receive of a call, and it is the one whose request is current.
\* A call reads the response to another call's request only when that call
\* returned with an error before this one began; it then fails with Protocol
\* (ids do not match), and no call returns another call's result as a success.
CallsSerialised ==
    /\ Cardinality(Inside) <= 1
    /\ (pc = "sent") = (Inside # {})
    /\ \A t \in Inside : cur.req.id = callers[t].reg
    /\ OthersResponseIsMismatch
    /\ ReadOthersResponse => /\ L.got[1].id[1] \in failed
                             /\ L.got[1].id[1] < L.id

\* Caller a's call found no response in time; caller b's call then read the
\* response to a's request and failed with the id mismatch.
SecondCallerReadsStale ==
    /\ callers["a"] = [pc |-> "out", reg |-> 1, got |-> <<1>>]
    /\ callers["b"] = [pc |-> "out", reg |-> 2, got |-> <<2>>]
    /\ ReadOthersResponse
    /\ L.id = 2
    /\ L.got[1].id = Some(1)
    /\ L.out = Mismatch

\* C22: two calls can overlap on one connection (while a caller is between its
\* send and its receive, another caller can begin a call), and a call that reads
\* the response to the other call's request fails with Protocol (ids do not
\* match), never returning the other call's result as a success.
OverlappingCallsMismatch ==
    /\ \A t, u \in Callers :
          callers[t].pc = "in" /\ callers[u].pc = "out" /\ Len(ids) < MaxCalls
              => ENABLED (\E m \in EchoMethods : SharedCall(u, m))
    /\ OthersResponseIsMismatch

====
